---------------------------- MODULE Spec2Model ----------------------------
(***************************************************************************)
(* CObjectManager (src/object/object_manager.cpp): the object registry     *)
(* (create / delete / clean / lookup) and the radar query over it.         *)
(*                                                                         *)
(* Pointers are handles: 0 is nullptr, a positive number is the address of *)
(* an object.  m_objects is the std::map as the sequence of its entries in *)
(* iteration (key) order; an entry is [id |-> key, ptr |-> handle].  heap  *)
(* holds the fields of the objects some entry owns (std::unique_ptr: an    *)
(* object lives exactly as long as an entry owns it).                      *)
(***************************************************************************)
EXTENDS Integers, Sequences, FiniteSets, TLC

VARIABLES
    m_objects,                   \* registry entries, in iteration order
    m_nextId,                    \* id counter
    m_shouldCleanRemovedObjects, \* pending-cleanup flag
    heap,                        \* handle -> fields of the object it points to
    nextHandle,                  \* number of objects the factory has built
    aborted,                     \* an assert() stopped the program
    autoIds,                     \* ids taken from the counter since the last reset
    deleted,                     \* handles that were passed to DeleteObject
    pendingIds,                  \* ids deleted since the last create / reset
    lastOp,                      \* the last call and what it returned
    query,                       \* arguments of the radar call under study
    result                       \* what that radar call returned

vars == << m_objects, m_nextId, m_shouldCleanRemovedObjects, heap, nextHandle,
           aborted, autoIds, deleted, pendingIds, lastOp, query, result >>

-----------------------------------------------------------------------------
(* Bounds of the model *)

MaxNextId == 3      \* CreateObject without id is called while m_nextId < MaxNextId
MaxExplicitId == 0  \* explicit ids are drawn from 0..MaxExplicitId
MaxBuilt == 2       \* the factory builds at most this many objects in a run
MaxNearestScene == 3     \* entries of the registry in the nearest-entity queries
MaxCategoryScene == 2    \* entries of the registry in the category queries
MaxAllegianceScene == 3  \* entries of the registry in the allegiance queries
MaxTeamScene == 3        \* entries of the registry in the team runs
MaxFindScene == 2        \* entries of the registry in the FindNearest queries
MaxFlightScene == 2      \* entries of the registry in the flight-state queries

-----------------------------------------------------------------------------
(* Values *)

nullptr == 0

Vector(x, z) == [x |-> x, z |-> z]

Origin == Vector(0, 0)

Abs(n) == IF n < 0 THEN 0 - n ELSE n


-----------------------------------------------------------------------------
(* The registry container: std::map<int, std::unique_ptr<CObject>> *)

Entry(id, ptr) == [id |-> id, ptr |-> ptr]

Keys(objs) == { objs[i].id : i \in 1..Len(objs) }

\* m_objects.find(id): the position of the entry with this key, 0 for end()
Find(objs, id) ==
    IF id \in Keys(objs)
    THEN CHOOSE i \in 1..Len(objs) : objs[i].id = id
    ELSE 0

\* m_objects.count(id)
Count(objs, id) == IF id \in Keys(objs) THEN 1 ELSE 0

\* the pointers the entries own
Owned(objs) == { objs[i].ptr : i \in 1..Len(objs) } \ {nullptr}

\* the entries whose slot is empty (marked for removal, not erased)
EmptySlots(objs) == { i \in 1..Len(objs) : objs[i].ptr = nullptr }

\* m_objects[id] = ptr: the slot of an existing key is overwritten, a new key
\* is inserted at its place in key order
MapAssign(objs, id, ptr) ==
    IF id \in Keys(objs)
    THEN [objs EXCEPT ![Find(objs, id)].ptr = ptr]
    ELSE LET below == SelectSeq(objs, LAMBDA e : e.id < id)
             above == SelectSeq(objs, LAMBDA e : e.id > id)
         IN  below \o << Entry(id, ptr) >> \o above

\* m_objects.erase(it)
Erase(objs, i) == SubSeq(objs, 1, i - 1) \o SubSeq(objs, i + 1, Len(objs))

\* an object dies when no entry owns it any more
Surviving(hp, objs) == [ h \in (DOMAIN hp) \cap Owned(objs) |-> hp[h] ]

-----------------------------------------------------------------------------
(* DeleteObject, lines 56-74 *)

\* it->second.reset()
ResetSlotKeepsObject(objs, i) == objs

ResetSlot(objs, i) == [objs EXCEPT ![i].ptr = nullptr]

DeleteObjectResetsFirst(objs, hp, instance) ==
    LET it == Find(objs, hp[instance].id)
    IN  IF it # 0 THEN ResetSlot(objs, 1) ELSE objs

DeleteObjectErases(objs, hp, instance) ==
    LET it == Find(objs, hp[instance].id)
    IN  IF it # 0 THEN Erase(objs, it) ELSE objs

\* the registry after DeleteObject(instance)
DeleteObjectEntries(objs, hp, instance) ==
    LET it == Find(objs, hp[instance].id)
    IN  IF it # 0 THEN ResetSlot(objs, it) ELSE objs

\* the value DeleteObject(instance) returns
DeleteObjectResult(objs, hp, instance) == Find(objs, hp[instance].id) # 0

FlagAfterDeleteKept(flag, found) == flag

\* line 69: the flag is set when the entity was found
FlagAfterDelete(flag, found) == found \/ flag

-----------------------------------------------------------------------------
(* CleanRemovedObjects, lines 76-86 *)

CleanRemovedEntries(objs) ==
    IF Len(objs) > 0 /\ objs[1].ptr = nullptr
    THEN Erase(objs, 1)
    ELSE objs

-----------------------------------------------------------------------------
(* DeleteAllObjects, lines 88-104 *)

ClearKeepsCounter(n) == n

\* m_nextId = 0
ResetNextId(n) == 0

\* m_objects.clear()
ClearEntries(objs) == << >>

-----------------------------------------------------------------------------
(* GetObjectById, lines 106-110, and GetObjectByRank, lines 112-118 *)

GetObjectById(objs, id) ==
    IF Count(objs, id) = 0 THEN nullptr ELSE objs[Find(objs, id)].ptr

GetObjectByRank(objs, rank) ==
    IF rank >= Len(objs) THEN nullptr ELSE objs[rank + 1].ptr

\* GetAllObjects(): the objects in iteration order, empty slots skipped
RECURSIVE GetAllObjects(_)
GetAllObjects(objs) ==
    IF Len(objs) = 0 THEN << >>
    ELSE IF Head(objs).ptr = nullptr THEN GetAllObjects(Tail(objs))
    ELSE << Head(objs).ptr >> \o GetAllObjects(Tail(objs))

-----------------------------------------------------------------------------
(* TeamExists, lines 183-196 *)

TeamExistsAnyMember(objs, hp, team) ==
    \/ team = 0
    \/ \E i \in 1..Len(GetAllObjects(objs)) : hp[GetAllObjects(objs)[i]].team = team

TeamExists(objs, hp, team) ==
    \/ team = 0
    \/ \E i \in 1..Len(GetAllObjects(objs)) :
           LET object == GetAllObjects(objs)[i]
           IN  hp[object].active /\ hp[object].team = team

-----------------------------------------------------------------------------
(* CreateObject, lines 120-140 *)

\* params.id < 0: the id is taken from the counter
IdUnset(params) == params.id < 0

\* the id the object is created under
AssignedId(params, n) == IF IdUnset(params) THEN n ELSE params.id

NextIdStuck(params, n) == n

\* the counter after the call
NextIdAfter(params, n) == IF IdUnset(params) THEN n + 1 ELSE n

\* assert(m_objects.find(params.id) == m_objects.end())
AssertFreeId(objs, id) == Find(objs, id) = 0

EntriesWithNullSlot(objs, id, objectPtr) == MapAssign(objs, id, objectPtr)

\* lines 132-137: the entries after the call; objectPtr is what the factory
\* gave, nullptr when it gave nothing and the call throws before line 137
EntriesAfterCreate(objs, id, objectPtr) ==
    IF objectPtr = nullptr THEN objs ELSE MapAssign(objs, id, objectPtr)

\* line 133: the category the CObjectCreateException carries, "none" when the
\* call returns
ThrownType(params, objectPtr) ==
    IF objectPtr = nullptr THEN params.type ELSE "none"

\* the object CObjectFactory::CreateObject builds from the parameters
FactoryObject(params, id) ==
    [ id          |-> id,
      type        |-> params.type,
      team        |-> params.team,
      pos         |-> params.pos,
      rotY        |-> 0,
      active      |-> TRUE,
      proxy       |-> FALSE,
      transported |-> FALSE,
      physics     |-> "none" ]


-----------------------------------------------------------------------------
(* Collaborators of the radar query: categories, filter bits, geometry *)

OBJECT_NULL == "OBJECT_NULL"

RuinVariants == { "OBJECT_RUINmobilew2", "OBJECT_RUINmobilet1", "OBJECT_RUINmobilet2",
                  "OBJECT_RUINmobiler1", "OBJECT_RUINmobiler2" }

ScrapVariants == { "OBJECT_SCRAP2", "OBJECT_SCRAP3", "OBJECT_SCRAP4", "OBJECT_SCRAP5" }

BarrierVariants == { "OBJECT_BARRIER2", "OBJECT_BARRIER3" }

SystemTypes == { "OBJECT_TOTO", "OBJECT_CONTROLLER" }

\* RadarFilter: the low byte is a team, the flags lie above it
FILTER_NONE == 0
FILTER_ONLYLANDING == 256
FILTER_ONLYFLYING == 512
FILTER_FRIENDLY == 1024
FILTER_ENEMY == 2048
FILTER_NEUTRAL == 4096

\* a & b on non-negative integers
RECURSIVE BitAnd(_, _)
BitAnd(a, b) ==
    IF a = 0 \/ b = 0 THEN 0
    ELSE (a % 2) * (b % 2) + 2 * BitAnd(a \div 2, b \div 2)

\* the world-unit constant
g_unit == 4

\* Angles are counted in eighths of a turn: Math::PI is 4.  The direction of
\* an axis is even, a direction strictly inside a quadrant is the odd value
\* between its axes; cone bounds are even, so every comparison of a direction
\* with a bound comes out as it does on the real angles.
PI == 4

\* Math::NormAngle: into 0..2*PI
NormAngle(angle) == angle % (2 * PI)

\* Math::RotateAngle(x, y): the direction of the vector (x, y), counter-clockwise
RotateAngle(x, y) ==
    CASE x = 0 /\ y = 0 -> 0
      [] x > 0 /\ y = 0 -> 0
      [] x > 0 /\ y > 0 -> 1
      [] x = 0 /\ y > 0 -> 2
      [] x < 0 /\ y > 0 -> 3
      [] x < 0 /\ y = 0 -> 4
      [] x < 0 /\ y < 0 -> 5
      [] x = 0 /\ y < 0 -> 6
      [] x > 0 /\ y < 0 -> 7

\* Math::TestAngle: is angle inside min..max, going round through 0
TestAngle(angle, min, max) ==
    LET a  == NormAngle(angle)
        lo == NormAngle(min)
        hi == NormAngle(max)
    IN  IF lo > hi THEN (a <= hi \/ a >= lo) ELSE (a >= lo /\ a <= hi)

\* Math::DistanceProjected: the distance of two points in the horizontal plane.
\* Positions are drawn so that it is a whole number.
DistanceProjected(a, b) ==
    LET dx == Abs(a.x - b.x)
        dz == Abs(a.z - b.z)
    IN  IF dz = 0 THEN dx
        ELSE IF dx = 0 THEN dz
        ELSE CHOOSE r \in 0..(dx + dz) : r * r = dx * dx + dz * dz

-----------------------------------------------------------------------------
(* Radar, lines 254-360: the steps of the loop body *)

\* lines 269-271
FilterTeam(filter) == filter % 256

FilterFlying(filter) == BitAnd(filter, FILTER_ONLYLANDING + FILTER_ONLYFLYING)

FilterEnemy(filter) == BitAnd(filter, FILTER_FRIENDLY + FILTER_ENEMY + FILTER_NEUTRAL)

\* lines 273-274
InitialBest(furthest) == IF ~furthest THEN 100000 ELSE 0

\* lines 279-284
Skipped(pObj, pThis, hp) ==
    \/ pObj = pThis
    \/ pObj = nullptr
    \/ hp[pObj].transported
    \/ ~hp[pObj].active
    \/ hp[pObj].proxy

NormalizedNever(oType, cbotTypes) == oType

\* lines 288-314
NormalizedType(oType, cbotTypes) ==
    IF ~cbotTypes THEN oType
    ELSE IF oType \in RuinVariants THEN "OBJECT_RUINmobilew1"
    ELSE IF oType \in ScrapVariants THEN "OBJECT_SCRAP1"
    ELSE IF oType \in BarrierVariants THEN "OBJECT_BARRIER1"
    ELSE oType

TypePassesSystem(type, oType) ==
    ~(oType \notin type /\ type # {})

\* lines 316-318; type is the requested vector, as the set of its elements
TypePasses(type, oType) ==
    /\ ~(oType \notin type /\ type # {})
    /\ ~(oType \in SystemTypes /\ type = {})

\* lines 320-329
FlyingPassesAll(filter_flying, physics) == TRUE

FlyingPasses(filter_flying, physics) ==
    /\ ~(filter_flying = FILTER_ONLYLANDING /\ physics # "none" /\ physics # "land")
    /\ ~(filter_flying = FILTER_ONLYFLYING /\ physics # "none" /\ physics = "land")

\* lines 331-332
TeamPasses(filter_team, team) == ~(filter_team # 0 /\ team # filter_team)

\* lines 336-339
Allegiance(team, thisTeam) ==
    (IF team = 0 THEN FILTER_NEUTRAL ELSE 0)
    + (IF team # 0 /\ team = thisTeam THEN FILTER_FRIENDLY ELSE 0)
    + (IF team # 0 /\ team # thisTeam THEN FILTER_ENEMY ELSE 0)

AllegiancePassesAll(pThis, hp, team, filter_enemy) == TRUE

\* lines 334-341
AllegiancePasses(pThis, hp, team, filter_enemy) ==
    pThis # nullptr =>
        ~(filter_enemy # 0 /\ BitAnd(filter_enemy, Allegiance(team, hp[pThis].team)) = 0)

DistancePassesAnyNear(d, minDist, maxDist) == ~(d > maxDist)

\* line 345
DistancePasses(d, minDist, maxDist) == ~(d < minDist \/ d > maxDist)

\* lines 347-348
AnglePasses(iPos, oPos, iAngle, focus) ==
    \/ TestAngle(RotateAngle(oPos.x - iPos.x, iPos.z - oPos.z),
                 iAngle - focus \div 2, iAngle + focus \div 2)
    \/ focus >= PI * 2

\* lines 350-351
Better(furthest, d, best) == (~furthest /\ d < best) \/ (furthest /\ d > best)

\* every test of the loop body before the scoring, for the entry at position i
Passes(objs, hp, q, i) ==
    LET pObj == objs[i].ptr
    IN  /\ ~Skipped(pObj, q.pThis, hp)
        /\ LET o     == hp[pObj]
               oType == NormalizedType(o.type, q.cbotTypes)
               d     == DistanceProjected(q.thisPosition, o.pos)
           IN  /\ TypePasses(q.type, oType)
               /\ FlyingPasses(FilterFlying(q.filter), o.physics)
               /\ TeamPasses(FilterTeam(q.filter), o.team)
               /\ AllegiancePasses(q.pThis, hp, o.team, FilterEnemy(q.filter))
               /\ DistancePasses(d, q.minDist * g_unit, q.maxDist * g_unit)
               /\ AnglePasses(q.thisPosition, o.pos,
                              NormAngle(q.thisAngle + q.angle), q.focus)

\* the loop of lines 276-357 from position i on, with the running best
RECURSIVE RadarLoop(_, _, _, _, _, _)
RadarLoop(objs, hp, q, i, best, pBest) ==
    IF i > Len(objs) THEN pBest
    ELSE IF Passes(objs, hp, q, i)
              /\ Better(q.furthest,
                        DistanceProjected(q.thisPosition, hp[objs[i].ptr].pos), best)
         THEN RadarLoop(objs, hp, q, i + 1,
                        DistanceProjected(q.thisPosition, hp[objs[i].ptr].pos),
                        objs[i].ptr)
         ELSE RadarLoop(objs, hp, q, i + 1, best, pBest)

\* Radar(pThis, thisPosition, thisAngle, types, angle, focus, minDist, maxDist,
\*       furthest, filter, cbotTypes), the arguments as the record q
Radar(objs, hp, q) == RadarLoop(objs, hp, q, 1, InitialBest(q.furthest), nullptr)

Query(pThis, thisPosition, thisAngle, type, angle, focus, minDist, maxDist, furthest, filter, cbotTypes) ==
    [ pThis |-> pThis, thisPosition |-> thisPosition, thisAngle |-> thisAngle,
      type |-> type, angle |-> angle, focus |-> focus, minDist |-> minDist,
      maxDist |-> maxDist, furthest |-> furthest, filter |-> filter,
      cbotTypes |-> cbotTypes ]

\* lines 222-224 and 248-250: a single category as the vector of categories
TypeVector(type) == IF type # OBJECT_NULL THEN {type} ELSE {}

\* lines 228-244: the position and heading of the requester, or the origin
RequesterPosition(hp, pThis) == IF pThis # nullptr THEN hp[pThis].pos ELSE Origin

RequesterAngle(hp, pThis) == IF pThis # nullptr THEN NormAngle(hp[pThis].rotY) ELSE 0

\* Radar(pThis, types, angle, focus, minDist, maxDist, furthest, filter, cbotTypes)
RadarOfRequester(objs, hp, pThis, type, angle, focus, minDist, maxDist, furthest, filter, cbotTypes) ==
    Radar(objs, hp,
          Query(pThis, RequesterPosition(hp, pThis), RequesterAngle(hp, pThis),
                type, angle, focus, minDist, maxDist, furthest, filter, cbotTypes))

\* lines 220-226: Radar(pThis, type, angle, ...), a single category
RadarOfType(objs, hp, pThis, type, angle, focus, minDist, maxDist, furthest, filter, cbotTypes) ==
    RadarOfRequester(objs, hp, pThis, TypeVector(type), angle, focus, minDist,
                     maxDist, furthest, filter, cbotTypes)

\* lines 246-252: Radar(pThis, thisPosition, thisAngle, type, angle, ...), a
\* single category
RadarAtOfType(objs, hp, pThis, thisPosition, thisAngle, type, angle, focus, minDist, maxDist, furthest, filter, cbotTypes) ==
    Radar(objs, hp,
          Query(pThis, thisPosition, thisAngle, TypeVector(type), angle, focus,
                minDist, maxDist, furthest, filter, cbotTypes))

-----------------------------------------------------------------------------
(* FindNearest, lines 362-380 *)

FindNearestHalfCircle(objs, hp, pThis, type, maxDist, cbotTypes) ==
    RadarOfType(objs, hp, pThis, type, 0, PI, 0, maxDist, FALSE, FILTER_NONE, cbotTypes)

\* lines 362-365: FindNearest(pThis, type, maxDist, cbotTypes)
FindNearestOfType(objs, hp, pThis, type, maxDist, cbotTypes) ==
    RadarOfType(objs, hp, pThis, type, 0, PI * 2, 0, maxDist, FALSE, FILTER_NONE, cbotTypes)

\* lines 367-370: FindNearest(pThis, types, maxDist, cbotTypes)
FindNearestOfTypes(objs, hp, pThis, type, maxDist, cbotTypes) ==
    RadarOfRequester(objs, hp, pThis, type, 0, PI * 2, 0, maxDist, FALSE, FILTER_NONE, cbotTypes)

\* lines 372-375: FindNearest(pThis, thisPosition, type, maxDist, cbotTypes)
FindNearestAtOfType(objs, hp, pThis, thisPosition, type, maxDist, cbotTypes) ==
    RadarAtOfType(objs, hp, pThis, thisPosition, 0, type, 0, PI * 2, 0, maxDist, FALSE, FILTER_NONE, cbotTypes)

\* lines 377-380: FindNearest(pThis, thisPosition, types, maxDist, cbotTypes)
FindNearestAtOfTypes(objs, hp, pThis, thisPosition, type, maxDist, cbotTypes) ==
    Radar(objs, hp, Query(pThis, thisPosition, 0, type, 0, PI * 2, 0, maxDist, FALSE, FILTER_NONE, cbotTypes))

\* the overload a call selects: by an explicit position or not, by a single
\* category (type) or a vector of them (types)
FindNearest(objs, hp, call) ==
    CASE call.overload = "type" ->
           FindNearestOfType(objs, hp, call.pThis, call.type, call.maxDist, call.cbotTypes)
      [] call.overload = "types" ->
           FindNearestOfTypes(objs, hp, call.pThis, call.types, call.maxDist, call.cbotTypes)
      [] call.overload = "position, type" ->
           FindNearestAtOfType(objs, hp, call.pThis, call.thisPosition, call.type,
                               call.maxDist, call.cbotTypes)
      [] call.overload = "position, types" ->
           FindNearestAtOfTypes(objs, hp, call.pThis, call.thisPosition, call.types,
                                call.maxDist, call.cbotTypes)


-----------------------------------------------------------------------------
(* The registry as a state machine *)

\* what callers pass to CreateObject in the registry runs
CreateKinds ==
    { [type |-> "OBJECT_HUMAN", team |-> 1, pos |-> Origin],
      [type |-> "OBJECT_TOTO",  team |-> 0, pos |-> Vector(3, 0)] }

CreateParams ==
    { [id |-> i, type |-> k.type, team |-> k.team, pos |-> k.pos] :
        i \in (-1)..MaxExplicitId, k \in CreateKinds }

NoQuery == Query(nullptr, Origin, 0, {}, 0, 0, 0, 0, FALSE, FILTER_NONE, FALSE)

\* a call: its arguments (id, ptr, unset, type), what it returned (ptr, ok) or
\* threw (thrown: the category the exception carries), and the number of
\* entries and the counter it found
CallOf(op, id, ptr, ok, unset, type, thrown) ==
    [op |-> op, id |-> id, ptr |-> ptr, ok |-> ok, unset |-> unset,
     type |-> type, thrown |-> thrown, len |-> Len(m_objects), n |-> m_nextId]

Call(op, id, ptr, ok, unset) == CallOf(op, id, ptr, ok, unset, "none", "none")

NoCall == [op |-> "none", id |-> -1, ptr |-> nullptr, ok |-> TRUE, unset |-> FALSE,
           type |-> "none", thrown |-> "none", len |-> 0, n |-> 0]

Init ==
    /\ m_objects = << >>
    /\ m_nextId = 0
    /\ m_shouldCleanRemovedObjects = FALSE
    /\ heap = << >>
    /\ nextHandle = 0
    /\ aborted = FALSE
    /\ autoIds = << >>
    /\ deleted = {}
    /\ pendingIds = {}
    /\ lastOp = << NoCall, NoCall >>
    /\ query = NoQuery
    /\ result = nullptr

\* the caller's side of a CreateObject call: an explicit id is a free id, and
\* the run stays within the bounds
CreateCallable(params, built) ==
    /\ ~aborted
    /\ IdUnset(params) => m_nextId < MaxNextId
    /\ ~IdUnset(params) => params.id \notin Keys(m_objects)
    /\ built => nextHandle < MaxBuilt

\* lines 122-126 and 130-139: the id, the factory, the insertion.  built says
\* whether the factory yields an object; when it does not, the call throws.
CreateObjectBody(params, built) ==
    LET id  == AssignedId(params, m_nextId)
        ptr == IF built THEN nextHandle + 1 ELSE nullptr
        new == EntriesAfterCreate(m_objects, id, ptr)
    IN  /\ m_nextId' = NextIdAfter(params, m_nextId)
        /\ autoIds' = IF IdUnset(params) THEN Append(autoIds, id) ELSE autoIds
        /\ pendingIds' = {}
        /\ m_objects' = new
        /\ heap' = [ h \in Owned(new) |->
                       IF h = ptr THEN FactoryObject(params, id) ELSE heap[h] ]
        /\ nextHandle' = IF built THEN ptr ELSE nextHandle
        /\ lastOp' = << CallOf("CreateObject", id, ptr, built, IdUnset(params),
                               params.type, ThrownType(params, ptr)),
                        lastOp[1] >>
        /\ UNCHANGED << m_shouldCleanRemovedObjects, aborted, deleted, query, result >>

\* CreateObject(params), the assertion of line 128 holding
CreateObject(params, built) ==
    /\ CreateCallable(params, built)
    /\ AssertFreeId(m_objects, AssignedId(params, m_nextId))
    /\ CreateObjectBody(params, built)

\* CreateObject(params), the assertion of line 128 failing in a build that
\* checks it: the program stops
CreateObjectAsserts(params) ==
    /\ CreateCallable(params, FALSE)
    /\ ~AssertFreeId(m_objects, AssignedId(params, m_nextId))
    /\ aborted' = TRUE
    /\ m_nextId' = NextIdAfter(params, m_nextId)
    /\ autoIds' = IF IdUnset(params) THEN Append(autoIds, AssignedId(params, m_nextId))
                  ELSE autoIds
    /\ lastOp' = << CallOf("CreateObject", AssignedId(params, m_nextId), nullptr, FALSE,
                           IdUnset(params), params.type, "none"), lastOp[1] >>
    /\ UNCHANGED << m_objects, m_shouldCleanRemovedObjects, heap, nextHandle, deleted,
                    pendingIds, query, result >>

\* the same call in a build with NDEBUG: line 137 overwrites the slot of the key
CreateObjectUnchecked(params, built) ==
    /\ CreateCallable(params, built)
    /\ ~AssertFreeId(m_objects, AssignedId(params, m_nextId))
    /\ CreateObjectBody(params, built)

\* an object that was never given to the registry: it is built by the caller
\* and carries the id 0
ForeignHandle == 100

ForeignObject ==
    [ id |-> 0, type |-> "OBJECT_HUMAN", team |-> 1, pos |-> Origin, rotY |-> 0,
      active |-> TRUE, proxy |-> FALSE, transported |-> FALSE, physics |-> "none" ]

\* the objects a caller can pass: the ones the registry owns and the foreign one
Instances(hp) ==
    [ h \in (DOMAIN hp) \cup {ForeignHandle} |->
        IF h \in DOMAIN hp THEN hp[h] ELSE ForeignObject ]

\* DeleteObject(instance), instance a live object
DeleteObject(instance) ==
    /\ ~aborted
    /\ instance \in DOMAIN Instances(heap)
    /\ LET all == Instances(heap)
           new == DeleteObjectEntries(m_objects, all, instance)
           ret == DeleteObjectResult(m_objects, all, instance)
       IN  /\ m_objects' = new
           /\ heap' = Surviving(heap, new)
           /\ m_shouldCleanRemovedObjects' =
                  FlagAfterDelete(m_shouldCleanRemovedObjects, ret)
           /\ pendingIds' = IF ret THEN pendingIds \cup {all[instance].id} ELSE pendingIds
           /\ lastOp' = << Call("DeleteObject", all[instance].id, instance, ret, FALSE),
                           lastOp[1] >>
    /\ deleted' = deleted \cup {instance}
    /\ UNCHANGED << m_nextId, nextHandle, aborted, autoIds, query, result >>

CleanRemovedObjects ==
    /\ ~aborted
    /\ m_objects' = CleanRemovedEntries(m_objects)
    /\ m_shouldCleanRemovedObjects' = FALSE
    /\ lastOp' = << Call("CleanRemovedObjects", -1, nullptr, TRUE, FALSE), lastOp[1] >>
    /\ UNCHANGED << m_nextId, heap, nextHandle, aborted, autoIds, deleted, pendingIds,
                    query, result >>

DeleteAllObjects ==
    /\ ~aborted
    /\ m_objects' = ClearEntries(m_objects)
    /\ heap' = Surviving(heap, m_objects')
    /\ m_nextId' = ResetNextId(m_nextId)
    /\ autoIds' = << >>
    /\ pendingIds' = {}
    /\ lastOp' = << Call("DeleteAllObjects", -1, nullptr, TRUE, FALSE), lastOp[1] >>
    /\ UNCHANGED << m_shouldCleanRemovedObjects, nextHandle, aborted, deleted,
                    query, result >>

Next ==
    \/ \E params \in CreateParams, built \in BOOLEAN : CreateObject(params, built)
    \/ \E params \in CreateParams : CreateObjectAsserts(params)
    \/ \E params \in CreateParams, built \in BOOLEAN : CreateObjectUnchecked(params, built)
    \/ \E instance \in DOMAIN Instances(heap) : DeleteObject(instance)
    \/ CleanRemovedObjects
    \/ DeleteAllObjects

Spec == Init /\ [][Next]_vars


-----------------------------------------------------------------------------
(* Claims about the registry, checked under Spec *)

\* C1: the ids CreateObject takes from the counter (params.id < 0), with no
\* DeleteAllObjects in between, are strictly increasing from one call to the
\* next, so no two calls receive the same id; a call whose factory
\* construction fails counts.
C1_AutoIdsIncreasing ==
    \A i, j \in 1..Len(autoIds) : i < j => autoIds[i] < autoIds[j]

\* three ids were taken in a row, the call before the last one failing
C1_Witness ==
    /\ Len(autoIds) >= 3
    /\ lastOp[1].op = "CreateObject" /\ lastOp[1].unset /\ lastOp[1].ok
    /\ lastOp[2].op = "CreateObject" /\ lastOp[2].unset /\ ~lastOp[2].ok

\* C2: after DeleteAllObjects the registry holds no entry and the counter is
\* zero, and a CreateObject without explicit id that follows it is given id 0.
C2_DeleteAllResets ==
    /\ lastOp[1].op = "DeleteAllObjects" => (Len(m_objects) = 0 /\ m_nextId = 0)
    /\ (lastOp[1].op = "CreateObject" /\ lastOp[1].unset
            /\ lastOp[2].op = "DeleteAllObjects")
         => lastOp[1].id = 0

\* DeleteAllObjects ran on a registry with entries and an advanced counter,
\* and a CreateObject without id followed
C2_Witness ==
    /\ lastOp[2].op = "DeleteAllObjects" /\ lastOp[2].len >= 1 /\ lastOp[2].n >= 2
    /\ lastOp[1].op = "CreateObject" /\ lastOp[1].unset /\ lastOp[1].ok
    /\ lastOp[1].id = 0

\* C3: once every pending slot is drained, GetObjectById gives not-found for
\* the id of every entity that DeleteObject removed since the last creation.
C3_DeletedNotFound ==
    EmptySlots(m_objects) = {} =>
        \A id \in pendingIds : GetObjectById(m_objects, id) = nullptr

\* a DeleteObject was followed by a CleanRemovedObjects that erased the slot,
\* while another entity stays registered
C3_Witness ==
    /\ pendingIds # {}
    /\ EmptySlots(m_objects) = {}
    /\ lastOp[1].op = "CleanRemovedObjects" /\ lastOp[1].len > Len(m_objects)
    /\ lastOp[2].op = "DeleteObject" /\ lastOp[2].ok
    /\ Len(m_objects) > 0

\* C4: repeated CleanRemovedObjects calls drain the pending removals.  A call
\* reads nothing but m_objects, so a call that leaves an empty slot where it
\* was is repeated unchanged by every later call: the calls drain exactly when
\* each call made with an empty slot present removes one.
C4_CleanDrains ==
    [][ (CleanRemovedObjects /\ EmptySlots(m_objects) # {})
          => Cardinality(EmptySlots(m_objects')) < Cardinality(EmptySlots(m_objects)) ]_vars

\* the radar queries asked of the registry runs: any requester, wildcard or the
\* system category, every direction, nearest and furthest
RegistryQueries ==
    { Query(pThis, RequesterPosition(heap, pThis), RequesterAngle(heap, pThis),
            type, 0, 2 * PI, 0, maxDist, furthest, FILTER_NONE, FALSE) :
        pThis \in {nullptr} \cup DOMAIN heap,
        type \in { {}, {"OBJECT_TOTO"} },
        maxDist \in {0, 1},
        furthest \in BOOLEAN }

\* C5: whatever the arguments, Radar returns not-found or an entity whose slot
\* is still owned, never an entity that was passed to DeleteObject.
C5_RadarSkipsRemoved ==
    \A q \in RegistryQueries :
        LET r == Radar(m_objects, heap, q)
        IN  r = nullptr \/ (r \in Owned(m_objects) /\ r \notin deleted)

\* an entity was just removed and is not yet cleaned, and a query finds another
C5_Witness ==
    /\ lastOp[1].op = "DeleteObject" /\ lastOp[1].ok
    /\ EmptySlots(m_objects) # {}
    /\ \E q \in RegistryQueries : Radar(m_objects, heap, q) # nullptr


-----------------------------------------------------------------------------
(* Radar as a function of a registry and a query: the registry is drawn from *)
(* the ones the operations above produce (keys in order, each slot empty or  *)
(* owning an object registered under its key), the query from a set of       *)
(* arguments, and the one step is the call.                                  *)

Kind(type, team, pos, active, proxy, transported, physics) ==
    [type |-> type, team |-> team, pos |-> pos, active |-> active, proxy |-> proxy,
     transported |-> transported, physics |-> physics]

Plain(type, team, pos) == Kind(type, team, pos, TRUE, FALSE, FALSE, "none")

ObjectOfKind(k, id) ==
    [ id          |-> id,
      type        |-> k.type,
      team        |-> k.team,
      pos         |-> k.pos,
      rotY        |-> 0,
      active      |-> k.active,
      proxy       |-> k.proxy,
      transported |-> k.transported,
      physics     |-> k.physics ]

\* a registry of n entries with keys 0..n-1, the ones in live owning the
\* objects f gives, the others marked for removal
SceneInit(n, live, f) ==
    /\ m_objects = [ i \in 1..n |-> Entry(i - 1, IF i \in live THEN i ELSE nullptr) ]
    /\ heap = [ h \in live |-> ObjectOfKind(f[h], h - 1) ]
    /\ m_nextId = n
    /\ m_shouldCleanRemovedObjects = (live # 1..n)
    /\ nextHandle = n
    /\ aborted = FALSE
    /\ autoIds = [ i \in 1..n |-> i - 1 ]
    /\ deleted = (1..n) \ live
    /\ pendingIds = { i - 1 : i \in (1..n) \ live }
    /\ lastOp = << NoCall, NoCall >>
    /\ result = nullptr

\* the requesters of a query: none, or a live object at one of these positions
Requesters(hp, positions) ==
    {nullptr} \cup { h \in DOMAIN hp : hp[h].pos \in positions }

\* the call of Radar with the arguments in query
RadarCall ==
    /\ lastOp[1].op = "none"
    /\ result' = Radar(m_objects, heap, query)
    /\ lastOp' = << Call("Radar", -1, result', TRUE, FALSE), lastOp[1] >>
    /\ UNCHANGED << m_objects, m_nextId, m_shouldCleanRemovedObjects, heap, nextHandle,
                    aborted, autoIds, deleted, pendingIds, query >>

Called == lastOp[1].op = "Radar"

-----------------------------------------------------------------------------
(* Nearest and furthest entity: wildcard, every direction, no filter *)

NearestKinds ==
    { Plain("OBJECT_HUMAN", 0, Origin),
      Plain("OBJECT_HUMAN", 0, Vector(3, 0)),
      Plain("OBJECT_HUMAN", 0, Vector(0, 4)),
      Plain("OBJECT_HUMAN", 0, Vector(100000, 0)),
      Plain("OBJECT_TOTO", 0, Vector(3, 0)),
      Kind("OBJECT_HUMAN", 0, Vector(3, 0), FALSE, FALSE, FALSE, "none"),
      Kind("OBJECT_HUMAN", 0, Vector(3, 0), TRUE, TRUE, FALSE, "none"),
      Kind("OBJECT_HUMAN", 0, Vector(3, 0), TRUE, FALSE, TRUE, "none") }

NearestQueries(hp) ==
    { Query(pThis, RequesterPosition(hp, pThis), RequesterAngle(hp, pThis),
            {}, 0, 2 * PI, minDist, maxDist, furthest, FILTER_NONE, FALSE) :
        pThis \in Requesters(hp, {Origin, Vector(3, 0)}),
        minDist \in {0, 1},
        maxDist \in {1, 25000},
        furthest \in BOOLEAN }

InitNearest ==
    \E n \in 0..MaxNearestScene :
        \E live \in SUBSET (1..n) :
            \E f \in [live -> NearestKinds] :
                /\ SceneInit(n, live, f)
                /\ query \in NearestQueries(heap)

SpecNearest == InitNearest /\ [][RadarCall]_vars


\* the distance of the entity h from the position the query is made from
DistanceOf(h) == DistanceProjected(query.thisPosition, heap[h].pos)

\* the entities the claim lets the query choose from: active, not transported,
\* not a proxy, not the requester, at a distance within the band
InBand(h) ==
    /\ h # query.pThis
    /\ heap[h].active /\ ~heap[h].transported /\ ~heap[h].proxy
    /\ query.minDist * g_unit <= DistanceOf(h)
    /\ DistanceOf(h) <= query.maxDist * g_unit

\* result is a nearest one of the candidates, or not-found when there is none
NearestOf(candidates) ==
    IF candidates = {} THEN result = nullptr
    ELSE /\ result \in candidates
         /\ \A h \in candidates : DistanceOf(result) <= DistanceOf(h)

WildcardNearestCall ==
    /\ Called
    /\ query.type = {} /\ query.focus >= 2 * PI
    /\ ~query.furthest /\ query.filter = FILTER_NONE

\* C6 as stated: with an empty category set, a full-circle cone, nearest
\* tie-break and no filter, Radar returns the nearest of the active,
\* non-transported, non-proxy entities other than the requester within the
\* distance band, and not-found when there is none.
C6_NearestOfAll ==
    WildcardNearestCall => NearestOf({ h \in Owned(m_objects) : InBand(h) })

\* C6 as amended: the same, among the entities that are moreover of neither
\* system category and nearer than the initial best of 100000.
C6_NearestOfVisible ==
    WildcardNearestCall =>
        NearestOf({ h \in Owned(m_objects) :
                      /\ InBand(h)
                      /\ heap[h].type \notin SystemTypes
                      /\ DistanceOf(h) < 100000 })

\* the nearest entity in the band is of a system category, an entity further
\* away is returned, and an inactive and a removed entity are passed over
C6_Witness ==
    /\ WildcardNearestCall
    /\ result # nullptr
    /\ \E h \in Owned(m_objects) :
          InBand(h) /\ heap[h].type \in SystemTypes /\ DistanceOf(h) < DistanceOf(result)
    /\ EmptySlots(m_objects) # {}

\* C7: Radar returns not-found only if no candidate passes all the filters:
\* the first candidate that passes replaces the initial best, in nearest and
\* in furthest mode, so with a passing candidate the result is a passing one.
C7_PassingCandidateFound ==
    (Called /\ \E i \in 1..Len(m_objects) : Passes(m_objects, heap, query, i))
        => /\ result # nullptr
           /\ \E i \in 1..Len(m_objects) :
                  m_objects[i].ptr = result /\ Passes(m_objects, heap, query, i)


-----------------------------------------------------------------------------
(* Category queries: every entity in reach, no filter *)

CategoryTypes ==
    { "OBJECT_HUMAN", "OBJECT_RUINmobilew1", "OBJECT_RUINmobilew2", "OBJECT_SCRAP1",
      "OBJECT_SCRAP3", "OBJECT_BARRIER1", "OBJECT_BARRIER2", "OBJECT_TOTO",
      "OBJECT_CONTROLLER" }

CategoryKinds == { Plain(t, 0, Vector(3, 0)) : t \in CategoryTypes }

RequestedTypes ==
    { {}, {"OBJECT_RUINmobilew1"}, {"OBJECT_RUINmobilew2"}, {"OBJECT_SCRAP1"},
      {"OBJECT_BARRIER2", "OBJECT_HUMAN"}, {"OBJECT_TOTO"},
      {"OBJECT_HUMAN", "OBJECT_CONTROLLER"} }

CategoryQueries(hp) ==
    { Query(pThis, RequesterPosition(hp, pThis), RequesterAngle(hp, pThis),
            type, 0, 2 * PI, 0, 1, FALSE, FILTER_NONE, cbotTypes) :
        pThis \in Requesters(hp, {Vector(3, 0)}),
        type \in RequestedTypes,
        cbotTypes \in BOOLEAN }

InitCategory ==
    \E n \in 0..MaxCategoryScene :
        \E live \in SUBSET (1..n) :
            \E f \in [live -> CategoryKinds] :
                /\ SceneInit(n, live, f)
                /\ query \in CategoryQueries(heap)

SpecCategory == InitCategory /\ [][RadarCall]_vars

\* the representative of the family of a category, per the claim
Representative(t) ==
    IF t \in RuinVariants \cup {"OBJECT_RUINmobilew1"} THEN "OBJECT_RUINmobilew1"
    ELSE IF t \in ScrapVariants \cup {"OBJECT_SCRAP1"} THEN "OBJECT_SCRAP1"
    ELSE IF t \in BarrierVariants \cup {"OBJECT_BARRIER1"} THEN "OBJECT_BARRIER1"
    ELSE t

\* the entities other than the requester
Others == Owned(m_objects) \ {query.pThis}

NormalizedCall == Called /\ query.cbotTypes /\ query.type # {}

\* C8 as stated: with normalizeCategories set, a candidate matches whenever
\* its category and a requested category have the same representative; a
\* request for a non-representative ruin variant alone matches the canonical
\* ruin.
C8_MatchesByFamily ==
    NormalizedCall =>
        ( (\E h \in Others : \E t \in query.type :
               Representative(t) = Representative(heap[h].type))
          => result # nullptr )

\* C8 as amended: with normalizeCategories set, a candidate matches exactly
\* when the representative of its own category is a member of the requested
\* set; the requested categories are taken as given, so a request for a
\* non-representative variant alone matches nothing.
C8_MatchesRepresentativeOnly ==
    NormalizedCall =>
        /\ result # nullptr <=>
               \E h \in Others : Representative(heap[h].type) \in query.type
        /\ result # nullptr => Representative(heap[result].type) \in query.type
        /\ query.type = {"OBJECT_RUINmobilew2"} => result = nullptr

\* the scenario of the claim: the request is the second ruin variant alone, a
\* canonical ruin and another ruin variant are in reach, nothing is found
C8_Witness ==
    /\ NormalizedCall
    /\ query.type = {"OBJECT_RUINmobilew2"}
    /\ result = nullptr
    /\ \E h \in Others : heap[h].type = "OBJECT_RUINmobilew1"
    /\ \E h \in Others : heap[h].type = "OBJECT_RUINmobilew2"

\* C10: a wildcard query (an empty category set, or the single-category call
\* with OBJECT_NULL) never returns an entity of a system category; such an
\* entity is returned only when its category is in the requested set.
C10_SystemTypesNotWildcard ==
    Called =>
        /\ query.type = {} =>
               (result = nullptr \/ heap[result].type \notin SystemTypes)
        /\ LET r == RadarOfType(m_objects, heap, query.pThis, OBJECT_NULL, query.angle,
                                query.focus, query.minDist, query.maxDist,
                                query.furthest, query.filter, query.cbotTypes)
           IN  r = nullptr \/ heap[r].type \notin SystemTypes
        /\ (result # nullptr /\ heap[result].type \in SystemTypes)
               => heap[result].type \in query.type

\* a wildcard query passed over a system entity that comes first and returned
\* another
C10_Witness ==
    /\ Called /\ query.type = {}
    /\ Len(m_objects) >= 2
    /\ m_objects[1].ptr # nullptr /\ m_objects[1].ptr # query.pThis
    /\ heap[m_objects[1].ptr].type \in SystemTypes
    /\ result # nullptr /\ result # m_objects[1].ptr


-----------------------------------------------------------------------------
(* Allegiance queries: every entity in reach, every direction *)

AllegianceKinds ==
    { Plain("OBJECT_HUMAN", team, pos) :
        team \in {0, 1, 2}, pos \in {Origin, Vector(3, 0), Vector(0, 4)} }

AllegianceFilters ==
    { FILTER_NONE, FILTER_FRIENDLY, FILTER_ENEMY, FILTER_NEUTRAL,
      FILTER_FRIENDLY + FILTER_NEUTRAL, FILTER_ENEMY + FILTER_ONLYLANDING,
      FILTER_ENEMY + 2 }

AllegianceQueries(hp) ==
    { Query(pThis, RequesterPosition(hp, pThis), RequesterAngle(hp, pThis),
            {}, 0, 2 * PI, 0, 25, FALSE, filter, FALSE) :
        pThis \in Requesters(hp, {Origin}),
        filter \in AllegianceFilters }

InitAllegiance ==
    \E n \in 0..MaxAllegianceScene :
        \E live \in SUBSET (1..n) :
            \E f \in [live -> AllegianceKinds] :
                /\ SceneInit(n, live, f)
                /\ query \in AllegianceQueries(heap)

SpecAllegiance == InitAllegiance /\ [][RadarCall]_vars

\* the allegiance of a candidate relative to the requester, per the claim
RelationTo(candidate, requester) ==
    IF heap[candidate].team = 0 THEN "neutral"
    ELSE IF heap[candidate].team = heap[requester].team THEN "friendly"
    ELSE "enemy"

\* the allegiances whose bit the filter carries
Allowed(filter) ==
    { a \in {"friendly", "enemy", "neutral"} :
        \/ a = "friendly" /\ (filter \div FILTER_FRIENDLY) % 2 = 1
        \/ a = "enemy" /\ (filter \div FILTER_ENEMY) % 2 = 1
        \/ a = "neutral" /\ (filter \div FILTER_NEUTRAL) % 2 = 1 }

\* the filter without its allegiance bits
WithoutAllegiance(filter) == filter % FILTER_FRIENDLY

\* C9: with a requester and at least one allegiance bit in the filter, the
\* entity Radar returns has an allegiance relative to the requester that is
\* among the bits of the filter; without a requester the allegiance bits
\* exclude nothing.
C9_AllegianceRespected ==
    Called =>
        /\ (query.pThis # nullptr /\ Allowed(query.filter) # {} /\ result # nullptr)
               => RelationTo(result, query.pThis) \in Allowed(query.filter)
        /\ query.pThis = nullptr =>
               result = Radar(m_objects, heap,
                              [query EXCEPT !.filter = WithoutAllegiance(query.filter)])

\* the scenario of the claim: the requester asks for friendly entities, an
\* entity of another team is nearer than the one of its own team that is found
C9_Witness ==
    /\ Called
    /\ query.pThis # nullptr /\ query.filter = FILTER_FRIENDLY
    /\ result # nullptr
    /\ \E h \in Others :
          heap[h].team \notin {0, heap[query.pThis].team}
          /\ DistanceOf(h) < DistanceOf(result)


-----------------------------------------------------------------------------
(* Teams: a registry of active and inactive members, from which entities are *)
(* deleted and cleaned                                                       *)

TeamKinds ==
    { Kind("OBJECT_HUMAN", team, Origin, active, FALSE, FALSE, "none") :
        team \in {0, 1, 2}, active \in BOOLEAN }

InitTeam ==
    \E n \in 0..MaxTeamScene :
        \E live \in SUBSET (1..n) :
            \E f \in [live -> TeamKinds] :
                /\ SceneInit(n, live, f)
                /\ query = NoQuery

NextTeam ==
    \/ \E instance \in DOMAIN Instances(heap) : DeleteObject(instance)
    \/ CleanRemovedObjects

SpecTeam == InitTeam /\ [][NextTeam]_vars

\* the teams asked about: the neutral one, the ones of the members, and one
\* that has no member
AskedTeams == 0..3

\* C11: TeamExists(0) is true in every state, even with no entity; for another
\* team TeamExists is true exactly when the registry holds a live entity that
\* is active and of that team, so it is false as soon as the last active
\* member was passed to DeleteObject, before any cleanup.
C11_TeamExistsIffActiveMember ==
    \A team \in AskedTeams :
        TeamExists(m_objects, heap, team) <=>
            (team = 0 \/ \E h \in Owned(m_objects) : heap[h].active /\ heap[h].team = team)

\* the last active member of team 1 was just passed to DeleteObject and is not
\* cleaned; an inactive member is still registered; the team does not exist
C11_Witness ==
    /\ lastOp[1].op = "DeleteObject" /\ lastOp[1].ok
    /\ lastOp[1].ptr # ForeignHandle
    /\ EmptySlots(m_objects) = { Find(m_objects, lastOp[1].id) }
    /\ ~TeamExists(m_objects, heap, 1)
    /\ \E h \in Owned(m_objects) : heap[h].team = 1 /\ ~heap[h].active
    /\ TeamExists(m_objects, heap, 2)


-----------------------------------------------------------------------------
(* CreateObject when the factory yields nothing *)

\* C12: when the factory yields no entity, CreateObject fails with a
\* CreationFailed error that carries the requested category, and the registry
\* has the same keys and the same slots after the call as before it.
C12_FailedCreateKeepsRegistry ==
    [][ \A params \in CreateParams :
          (CreateObject(params, FALSE) \/ CreateObjectUnchecked(params, FALSE))
            => /\ lastOp'[1].thrown = params.type
               /\ lastOp'[1].ptr = nullptr
               /\ Keys(m_objects') = Keys(m_objects)
               /\ m_objects' = m_objects ]_vars

\* a CreateObject call just failed on a registry that holds a live entity and
\* an empty slot
C12_Witness ==
    /\ lastOp[1].op = "CreateObject" /\ ~lastOp[1].ok /\ ~aborted
    /\ lastOp[1].thrown = "OBJECT_TOTO"
    /\ lastOp[1].len = 2 /\ Len(m_objects) = 2
    /\ Owned(m_objects) # {} /\ EmptySlots(m_objects) # {}

-----------------------------------------------------------------------------
(* DeleteObject: what it returns and what it changes *)

\* C13: DeleteObject(e) returns true exactly when e's id is a key of the
\* registry; then the key is still present afterwards, its slot is empty and
\* the pending-cleanup flag is set; when the id is not a key it returns false
\* and leaves the entries and the flag unchanged.
C13_DeleteObjectOutcome ==
    [][ \A instance \in DOMAIN Instances(heap) :
          DeleteObject(instance) =>
            LET id  == Instances(heap)[instance].id
                ret == lastOp'[1].ok
            IN  /\ ret <=> id \in Keys(m_objects)
                /\ ret => /\ id \in Keys(m_objects')
                          /\ GetObjectById(m_objects', id) = nullptr
                          /\ Find(m_objects', id) \in EmptySlots(m_objects')
                          /\ m_shouldCleanRemovedObjects'
                /\ ~ret => /\ m_objects' = m_objects
                           /\ m_shouldCleanRemovedObjects'
                                = m_shouldCleanRemovedObjects ]_vars

\* an entity whose id is no key was passed and false came back, then a
\* registered entity was passed, true came back, the flag went up and the key
\* stayed with an empty slot
C13_Witness ==
    /\ lastOp[2].op = "DeleteObject" /\ ~lastOp[2].ok /\ lastOp[2].len > 0
    /\ lastOp[1].op = "DeleteObject" /\ lastOp[1].ok
    /\ lastOp[1].id \in Keys(m_objects)
    /\ Find(m_objects, lastOp[1].id) \in EmptySlots(m_objects)
    /\ m_shouldCleanRemovedObjects

\* C14: in every reachable state, if the registry contains an empty slot
\* (marked for removal, not yet erased), the pending-cleanup flag is set.
C14_FlagWhenEmptySlot ==
    EmptySlots(m_objects) # {} => m_shouldCleanRemovedObjects

-----------------------------------------------------------------------------
(* CleanRemovedObjects: what one call erases *)

\* the first empty slot in iteration order
FirstEmptySlot(objs) ==
    CHOOSE i \in EmptySlots(objs) : \A j \in EmptySlots(objs) : i <= j

\* C16: a call of CleanRemovedObjects erases at most one entry, never an entry
\* whose slot is owned, and when the registry contains an empty slot it erases
\* the first empty slot found scanning from the beginning.
C16_CleanErasesFirstEmpty ==
    [][ CleanRemovedObjects =>
          /\ Len(m_objects') >= Len(m_objects) - 1
          /\ Owned(m_objects') = Owned(m_objects)
          /\ EmptySlots(m_objects) # {}
               => m_objects' = Erase(m_objects, FirstEmptySlot(m_objects)) ]_vars

-----------------------------------------------------------------------------
(* DeleteObject leaves the other entries where they are *)

\* C18: DeleteObject(e) changes only the slot of e's id: the number of
\* entries, the key at every rank, and for every other entry its slot, its
\* object and what GetObjectById and GetObjectByRank return for it are the
\* same after the call as before it.
C18_DeleteKeepsOthers ==
    [][ \A instance \in DOMAIN Instances(heap) :
          DeleteObject(instance) =>
            LET id == Instances(heap)[instance].id
            IN  /\ Len(m_objects') = Len(m_objects)
                /\ \A i \in 1..Len(m_objects) :
                     /\ i <= Len(m_objects') => m_objects'[i].id = m_objects[i].id
                     /\ m_objects[i].id # id =>
                          /\ GetObjectByRank(m_objects', i - 1)
                               = GetObjectByRank(m_objects, i - 1)
                          /\ GetObjectById(m_objects', m_objects[i].id)
                               = GetObjectById(m_objects, m_objects[i].id)
                          /\ m_objects[i].ptr # nullptr =>
                               /\ m_objects[i].ptr \in DOMAIN heap'
                               /\ heap'[m_objects[i].ptr] = heap[m_objects[i].ptr] ]_vars

\* the first of two registered entities was just deleted: the registry still
\* has two entries and the second entity is at rank 1
C18_Witness ==
    /\ lastOp[1].op = "DeleteObject" /\ lastOp[1].ok /\ lastOp[1].len = 2
    /\ Len(m_objects) = 2
    /\ m_objects[1].id = lastOp[1].id /\ m_objects[1].ptr = nullptr
    /\ GetObjectByRank(m_objects, 1) # nullptr
    /\ GetObjectById(m_objects, m_objects[2].id) = GetObjectByRank(m_objects, 1)

-----------------------------------------------------------------------------
(* Ids from the counter, and enumeration by rank *)

\* C19: a CreateObject call that leaves the id unset takes from the counter an
\* id that is not a key of the registry, so the assertion of line 128 holds in
\* it (explicit ids are only supplied when they are not keys).
C19_CounterIdIsFree ==
    [][ \A params \in CreateParams :
          ( /\ IdUnset(params)
            /\ \/ \E built \in BOOLEAN : CreateObject(params, built)
               \/ CreateObjectAsserts(params)
               \/ \E built \in BOOLEAN : CreateObjectUnchecked(params, built) )
            => AssertFreeId(m_objects, AssignedId(params, m_nextId)) ]_vars

\* GetObjectByRank(rank), GetObjectByRank(rank + 1), ... until the first
\* not-found result
RECURSIVE EnumerateByRank(_, _)
EnumerateByRank(objs, rank) ==
    LET object == GetObjectByRank(objs, rank)
    IN  IF object = nullptr THEN << >>
        ELSE << object >> \o EnumerateByRank(objs, rank + 1)

\* C20: in every reachable state the enumeration by rank from 0 until the
\* first not-found result yields exactly the entities GetAllObjects() returns.
C20_RankEnumeratesAll ==
    EnumerateByRank(m_objects, 0) = GetAllObjects(m_objects)


-----------------------------------------------------------------------------
(* FindNearest: every overload, requesters with and without a heading *)

\* entities around the origin; the one at (3, 0) is turned a quarter
FindKinds ==
    { [kind |-> Plain("OBJECT_HUMAN", 0, Origin), rotY |-> 0],
      [kind |-> Plain("OBJECT_HUMAN", 0, Vector(3, 0)), rotY |-> 2],
      [kind |-> Plain("OBJECT_HUMAN", 0, Vector(-3, 0)), rotY |-> 0],
      [kind |-> Plain("OBJECT_HUMAN", 0, Vector(0, 4)), rotY |-> 0],
      [kind |-> Plain("OBJECT_TOTO", 0, Vector(3, 0)), rotY |-> 0] }

Overloads == { "type", "types", "position, type", "position, types" }

HasPosition(overload) == overload \in { "position, type", "position, types" }

HasVector(overload) == overload \in { "types", "position, types" }

\* the calls of every overload; an argument the overload does not take is
\* left at a fixed value
FindCalls(hp) ==
    { [ overload |-> o, pThis |-> pThis, thisPosition |-> pos, type |-> type,
        types |-> types, maxDist |-> maxDist, cbotTypes |-> cbotTypes ] :
        o \in Overloads,
        pThis \in Requesters(hp, {Origin, Vector(3, 0)}),
        pos \in {Origin, Vector(0, 4)},
        type \in {OBJECT_NULL, "OBJECT_TOTO"},
        types \in { {}, {"OBJECT_TOTO", "OBJECT_HUMAN"} },
        maxDist \in {1, 25000},
        cbotTypes \in BOOLEAN }

\* one call per choice of the arguments the overload takes
Canonical(call) ==
    /\ ~HasPosition(call.overload) => call.thisPosition = Origin
    /\ HasVector(call.overload) => call.type = OBJECT_NULL
    /\ ~HasVector(call.overload) => call.types = {}

InitFind ==
    \E n \in 0..MaxFindScene :
        \E live \in SUBSET (1..n) :
            \E f \in [live -> FindKinds] :
                /\ m_objects = [ i \in 1..n |->
                                   Entry(i - 1, IF i \in live THEN i ELSE nullptr) ]
                /\ heap = [ h \in live |->
                              [ ObjectOfKind(f[h].kind, h - 1) EXCEPT !.rotY = f[h].rotY ] ]
                /\ m_nextId = n
                /\ m_shouldCleanRemovedObjects = (live # 1..n)
                /\ nextHandle = n
                /\ aborted = FALSE
                /\ autoIds = [ i \in 1..n |-> i - 1 ]
                /\ deleted = (1..n) \ live
                /\ pendingIds = { i - 1 : i \in (1..n) \ live }
                /\ lastOp = << NoCall, NoCall >>
                /\ result = nullptr
                /\ query \in { call \in FindCalls(heap) : Canonical(call) }

\* the call of FindNearest with the arguments in query
FindNearestCall ==
    /\ lastOp[1].op = "none"
    /\ result' = FindNearest(m_objects, heap, query)
    /\ lastOp' = << Call("FindNearest", -1, result', TRUE, FALSE), lastOp[1] >>
    /\ UNCHANGED << m_objects, m_nextId, m_shouldCleanRemovedObjects, heap, nextHandle,
                    aborted, autoIds, deleted, pendingIds, query >>

SpecFind == InitFind /\ [][FindNearestCall]_vars

\* the position the claim names for a call
FindPosition(call) ==
    IF HasPosition(call.overload) THEN call.thisPosition
    ELSE IF call.pThis # nullptr THEN heap[call.pThis].pos ELSE Origin

\* the categories asked for, as a vector
FindTypes(call) ==
    IF HasVector(call.overload) THEN call.types
    ELSE IF call.type = OBJECT_NULL THEN {} ELSE {call.type}

\* the headings a requester can have
Headings == 0..(2 * PI - 1)

\* C15: every FindNearest overload returns the entity the canonical Radar
\* returns with cone centre 0, a full-circle cone, minimum distance 0, the
\* given maximum distance, nearest tie-break and no filter, from the explicit
\* position or else the requester's position (the origin without requester);
\* the heading given to the canonical Radar makes no difference.
C15_FindNearestIsRadar ==
    lastOp[1].op = "FindNearest" =>
        \A thisAngle \in Headings :
            result = Radar(m_objects, heap,
                           Query(query.pThis, FindPosition(query), thisAngle,
                                 FindTypes(query), 0, 2 * PI, 0, query.maxDist, FALSE,
                                 FILTER_NONE, query.cbotTypes))

\* a requester at (3, 0), turned a quarter, asked without position for the
\* nearest entity of any category and got the one at the origin, which is
\* not in front of it
C15_Witness ==
    /\ lastOp[1].op = "FindNearest"
    /\ query.overload = "type" /\ query.type = OBJECT_NULL
    /\ query.pThis # nullptr
    /\ heap[query.pThis].pos = Vector(3, 0) /\ heap[query.pThis].rotY = 2
    /\ result # nullptr /\ heap[result].pos = Origin


-----------------------------------------------------------------------------
(* Flight-state queries: entities without physics, landed and in flight *)

FlightKinds ==
    { Kind("OBJECT_HUMAN", 1, pos, TRUE, FALSE, FALSE, physics) :
        pos \in {Origin, Vector(3, 0), Vector(0, 4)},
        physics \in {"none", "land", "fly"} }

FlightFilters ==
    { FILTER_NONE, FILTER_ONLYLANDING, FILTER_ONLYFLYING,
      FILTER_ONLYLANDING + FILTER_ONLYFLYING,
      FILTER_ONLYLANDING + 1, FILTER_ONLYFLYING + FILTER_FRIENDLY }

FlightQueries(hp) ==
    { Query(pThis, RequesterPosition(hp, pThis), RequesterAngle(hp, pThis),
            {}, 0, 2 * PI, 0, 25, furthest, filter, FALSE) :
        pThis \in Requesters(hp, {Origin}),
        furthest \in BOOLEAN,
        filter \in FlightFilters }

InitFlight ==
    \E n \in 0..MaxFlightScene :
        \E live \in SUBSET (1..n) :
            \E f \in [live -> FlightKinds] :
                /\ SceneInit(n, live, f)
                /\ query \in FlightQueries(heap)

SpecFlight == InitFlight /\ [][RadarCall]_vars

\* what the two flight-state bits of the filter request
FlightRequest(filter) ==
    LET landing == (filter \div FILTER_ONLYLANDING) % 2 = 1
        flying  == (filter \div FILTER_ONLYFLYING) % 2 = 1
    IN  IF landing /\ ~flying THEN "landed only"
        ELSE IF flying /\ ~landing THEN "flying only"
        ELSE "any"

\* the filter without its flight-state bits
WithoutFlight(filter) ==
    filter - BitAnd(filter, FILTER_ONLYLANDING + FILTER_ONLYFLYING)

\* C17: with a landed-only filter Radar never returns a candidate that has a
\* physics capability and is not landed; with a flying-only filter never one
\* that has a physics capability and is landed; a candidate without physics
\* capability passes the tests of Radar with the flight-state filter exactly
\* when it passes them without.
C17_FlightStateRespected ==
    Called =>
        /\ (FlightRequest(query.filter) = "landed only" /\ result # nullptr)
               => heap[result].physics \in {"none", "land"}
        /\ (FlightRequest(query.filter) = "flying only" /\ result # nullptr)
               => heap[result].physics \in {"none", "fly"}
        /\ \A i \in 1..Len(m_objects) :
               (m_objects[i].ptr # nullptr /\ heap[m_objects[i].ptr].physics = "none")
                   => ( Passes(m_objects, heap, query, i)
                          <=> Passes(m_objects, heap,
                                     [query EXCEPT !.filter = WithoutFlight(query.filter)],
                                     i) )

\* a landed-only query passed over a nearer entity in flight and returned an
\* entity without physics capability
C17_Witness ==
    /\ Called
    /\ FlightRequest(query.filter) = "landed only" /\ ~query.furthest
    /\ result # nullptr /\ heap[result].physics = "none"
    /\ \E h \in Others :
          heap[h].physics = "fly" /\ DistanceOf(h) < DistanceOf(result)

=============================================================================
